---- MODULE Spec2Model ----
(***************************************************************************)
(* Model of .github/scripts/generate-star-history.py: the paginated fetch  *)
(* of a repository's stargazers (get_star_history), the renderer           *)
(* (generate_chart) and the driver (main).                                 *)
(*                                                                         *)
(* A star's timestamp is an integer (seconds).  The stargazers endpoint is *)
(* modelled as one list per repository, delivered in slices of PER_PAGE    *)
(* items; each request answers either 200 with its slice or a non-success  *)
(* status.                                                                 *)
(***************************************************************************)
EXTENDS Integers, Sequences, FiniteSets, TLC

\* ---------------------------------------------------------------- bounds
\* PER_PAGE and MAX_PAGES are both 100 in the script (lines 35-36); the model
\* runs them scaled down so that short pages, full pages and the page cap all
\* occur.
PER_PAGE == 2
MAX_PAGES == 2
\* The API holds at most MaxStars stargazers for a repository: one more than
\* MAX_PAGES * PER_PAGE, so that a repository can exceed the cap.
MaxStars == 5
\* The timestamps the API delivers.  Two values give every order relation
\* between two star events: earlier, later, and a tie.
Timestamps == {1, 2}

\* ---------------------------------------------------------------- configuration
\* Two of the six configured repositories, in configuration order.
REPOS == <<"bittner/pyclean", "behave/behave">>

COLORS == <<"#1f77b4", "#ff7f0e", "#2ca02c", "#d62728", "#9467bd", "#8c564b",
            "#e377c2", "#7f7f7f", "#bcbd22", "#17becf">>

\* response.status_code of a success
OK == 200
StatusCodes == {200, 403}

VARIABLES
    pc,           \* position of the single thread of control
    repo_idx,     \* main: index in REPOS of the repository of the for loop
    repo_data,    \* main: mapping repository -> cumulative series
    stargazers,   \* the API's stargazer list of the repository being fetched
    stars,        \* get_star_history: collected star timestamps
    page,         \* get_star_history: page number
    received,     \* responses received by the latest get_star_history call
    requests,     \* every request issued so far, as <<repository index, page>>
    failedAt,     \* per repository index: the page that answered non-success, or 0
    plotted,      \* generate_chart: the series handed to ax.plot, in order
    rendered,     \* number of calls of generate_chart
    previousFile, \* what was at OUTPUT_FILE when the run started
    outputFile,   \* what is at OUTPUT_FILE
    exitCode      \* return value of main, -1 while it runs

vars == <<pc, repo_idx, repo_data, stargazers, stars, page, received, requests,
          failedAt, plotted, rendered, previousFile, outputFile, exitCode>>

\* ---------------------------------------------------------------- helpers
Min(a, b) == IF a < b THEN a ELSE b

Range(s) == {s[k] : k \in 1..Len(s)}

\* All sequences over S of length at most n.
SeqsUpTo(S, n) == UNION {[1..k -> S] : k \in 0..n}

\* The slice of the list the endpoint delivers for ?page=p&per_page=PER_PAGE.
PageOf(list, p) == SubSeq(list, (p - 1) * PER_PAGE + 1, Min(p * PER_PAGE, Len(list)))

\* list.sort(): ascending and stable. An element's position in the result is
\* the number of smaller elements plus the number of equal ones up to it.
Rank(s, k) ==
    Cardinality({j \in 1..Len(s) : s[j] < s[k]})
    + Cardinality({j \in 1..k : s[j] = s[k]})

Unsorted(s) == s
SortAscending(s) ==
    [p \in 1..Len(s) |-> s[CHOOSE k \in 1..Len(s) : Rank(s, k) = p]]


\* [(date, idx + 1) for idx, date in enumerate(stars)]
CountFromZero(s) == [k \in 1..Len(s) |-> <<s[k], k - 1>>]
Cumulative(s) == [k \in 1..Len(s) |-> <<s[k], k>>]

\* stars = [] at the start of a call
StaleStars == stars
EmptyStars == <<>>

\* len(data) < PER_PAGE
NeverShort(data) == FALSE
IsShortPage(data) == Len(data) < PER_PAGE

\* page > MAX_PAGES
OnePageLate(p) == p > MAX_PAGES + 1
ReachedLimit(p) == p > MAX_PAGES

\* any(repo_data.values())
AllData(rd) == \A r \in DOMAIN rd : rd[r] # <<>>
AnyData(rd) == \E r \in DOMAIN rd : rd[r] # <<>>

\* if not data: continue
SkipNothing(data) == FALSE
SkipSeries(data) == data = <<>>

\* for repo in REPOS: the loop has run out
LoopEndsEarly(idx) == idx > 1
LoopDone(idx) == idx > Len(REPOS)

\* repo_data.keys(): a dict keeps insertion order, and main inserts in REPOS order.
Keys(rd) == SelectSeq(REPOS, LAMBDA r : r \in DOMAIN rd)

\* enumerate(repo_data.items()) with the colour COLORS[idx % len(COLORS)] of each.
Items(rd) ==
    [k \in 1..Len(Keys(rd)) |->
        [label |-> Keys(rd)[k], color |-> COLORS[((k - 1) % Len(COLORS)) + 1],
         data |-> rd[Keys(rd)[k]]]]

\* The for loop of generate_chart: the series handed to ax.plot.
Plot(rd) == SelectSeq(Items(rd), LAMBDA item : ~SkipSeries(item.data))

\* ---------------------------------------------------------------- initial state
Init ==
    /\ pc = "main"
    /\ repo_idx = 1
    /\ repo_data = <<>>
    /\ stargazers = <<>>
    /\ stars = <<>>
    /\ page = 1
    /\ received = <<>>
    /\ requests = <<>>
    /\ plotted = <<>>
    /\ rendered = 0
    /\ failedAt = [k \in 1..Len(REPOS) |-> 0]
    /\ previousFile \in {"absent", "previous run"}
    /\ outputFile = previousFile
    /\ exitCode = -1

\* ---------------------------------------------------------------- get_star_history
chart == <<plotted, rendered, previousFile, outputFile, exitCode>>

\* main's for loop calls get_star_history(repo): stars = [], page = 1.
CallGetStarHistory ==
    /\ pc = "main"
    /\ ~LoopDone(repo_idx)
    /\ \E list \in SeqsUpTo(Timestamps, MaxStars) : stargazers' = list
    /\ stars' = EmptyStars
    /\ page' = 1
    /\ received' = <<>>
    /\ pc' = "request"
    /\ UNCHANGED <<repo_idx, repo_data, requests, failedAt, chart>>

\* requests.get(url, headers=headers, params={"page": page, "per_page": PER_PAGE})
Request ==
    /\ pc = "request"
    /\ requests' = Append(requests, <<repo_idx, page>>)
    /\ pc' = "response"
    /\ UNCHANGED <<repo_idx, repo_data, stargazers, stars, page, received, failedAt, chart>>

\* The code after the loop and main's assignment: sort, cumulative counts,
\* repo_data[repo] = data, next repository.
Return(collected) ==
    /\ stars' = SortAscending(collected)
    /\ repo_data' = (REPOS[repo_idx] :> Cumulative(SortAscending(collected))) @@ repo_data
    /\ repo_idx' = repo_idx + 1
    /\ pc' = "main"

ResponseErrorDiscards ==
    /\ pc = "response"
    /\ \E status \in StatusCodes \ {OK} :
          received' = Append(received, [status |-> status, data |-> <<>>])
    /\ failedAt' = [failedAt EXCEPT ![repo_idx] = page]
    /\ Return(<<>>)
    /\ UNCHANGED <<stargazers, page, requests, chart>>

\* response.status_code != 200: break
ResponseError ==
    /\ pc = "response"
    /\ \E status \in StatusCodes \ {OK} :
          received' = Append(received, [status |-> status, data |-> <<>>])
    /\ failedAt' = [failedAt EXCEPT ![repo_idx] = page]
    /\ Return(stars)
    /\ UNCHANGED <<stargazers, page, requests, chart>>

\* 200, data empty: break
ResponseEmpty ==
    /\ pc = "response"
    /\ PageOf(stargazers, page) = <<>>
    /\ received' = Append(received, [status |-> OK, data |-> <<>>])
    /\ Return(stars)
    /\ UNCHANGED <<stargazers, page, requests, failedAt, chart>>

\* 200, a page with fewer than PER_PAGE items: collect it, break
ResponseShort ==
    /\ pc = "response"
    /\ LET data == PageOf(stargazers, page) IN
          /\ data # <<>>
          /\ IsShortPage(data)
          /\ received' = Append(received, [status |-> OK, data |-> data])
          /\ Return(stars \o data)
    /\ UNCHANGED <<stargazers, page, requests, failedAt, chart>>

\* 200, a full page below the cap: collect it, page += 1, loop
ResponseFull ==
    /\ pc = "response"
    /\ LET data == PageOf(stargazers, page) IN
          /\ data # <<>>
          /\ ~IsShortPage(data)
          /\ ~ReachedLimit(page + 1)
          /\ received' = Append(received, [status |-> OK, data |-> data])
          /\ stars' = stars \o data
    /\ page' = page + 1
    /\ pc' = "request"
    /\ UNCHANGED <<repo_idx, repo_data, stargazers, requests, failedAt, chart>>

\* 200, a full page, page += 1 exceeds MAX_PAGES: collect it, break
ResponseCap ==
    /\ pc = "response"
    /\ LET data == PageOf(stargazers, page) IN
          /\ data # <<>>
          /\ ~IsShortPage(data)
          /\ ReachedLimit(page + 1)
          /\ received' = Append(received, [status |-> OK, data |-> data])
          /\ Return(stars \o data)
    /\ page' = page + 1
    /\ UNCHANGED <<stargazers, requests, failedAt, chart>>

\* ---------------------------------------------------------------- generate_chart, main
fetch == <<repo_idx, repo_data, stargazers, stars, page, received, requests, failedAt>>

GenerateChartExclusive ==
    /\ pc = "main"
    /\ LoopDone(repo_idx)
    /\ AnyData(repo_data)
    /\ plotted' = Plot(repo_data)
    /\ rendered' = rendered + 1
    /\ outputFile' = IF outputFile = "absent" THEN "this run" ELSE outputFile
    /\ exitCode' = 0
    /\ pc' = "exited"
    /\ UNCHANGED <<fetch, previousFile>>

\* any(repo_data.values()): generate_chart(repo_data), which plots the
\* non-empty series and saves the figure to OUTPUT_FILE; return 0
GenerateChart ==
    /\ pc = "main"
    /\ LoopDone(repo_idx)
    /\ AnyData(repo_data)
    /\ plotted' = Plot(repo_data)
    /\ rendered' = rendered + 1
    /\ outputFile' = "this run"
    /\ exitCode' = 0
    /\ pc' = "exited"
    /\ UNCHANGED <<fetch, previousFile>>

\* else: return 1
NoData ==
    /\ pc = "main"
    /\ LoopDone(repo_idx)
    /\ ~AnyData(repo_data)
    /\ exitCode' = 1
    /\ pc' = "exited"
    /\ UNCHANGED <<fetch, plotted, rendered, previousFile, outputFile>>

Next ==
    \/ CallGetStarHistory
    \/ Request
    \/ ResponseError
    \/ ResponseEmpty
    \/ ResponseShort
    \/ ResponseFull
    \/ ResponseCap
    \/ GenerateChart
    \/ NoData

Spec == Init /\ [][Next]_vars

\* The single thread keeps running and every request returns a response.
FairSpec == Spec /\ WF_vars(Next)

\* ---------------------------------------------------------------- vocabulary of the properties
\* A call of get_star_history has returned and no later call has started:
\* stargazers and received are those of the repository REPOS[repo_idx - 1].
Returned == pc \in {"main", "exited"} /\ repo_idx > 1

LastIdx == repo_idx - 1
LastSeries == repo_data[REPOS[LastIdx]]

\* A successful response carrying PER_PAGE items.
FullPage(resp) == resp.status = OK /\ Len(resp.data) = PER_PAGE

AllSucceeded == \A k \in 1..Len(received) : received[k].status = OK

\* The star events of the first n responses, in delivery order.
Delivered(n) ==
    LET f[k \in 0..n] == IF k = 0 THEN <<>> ELSE f[k - 1] \o received[k].data
    IN f[n]

Occurrences(s, t) == Cardinality({k \in 1..Len(s) : s[k] = t})

Dates(series) == [k \in 1..Len(series) |-> series[k][1]]

\* Timestamps non-decreasing, counts 1, 2, ..., Len(series).
WellFormed(series) ==
    /\ \A k \in 1..Len(series) : series[k][2] = k
    /\ \A k \in 1..Len(series) - 1 : series[k][1] <= series[k + 1][1]

\* series is the cumulative series of exactly the given star events.
IsSeriesOf(series, events) ==
    /\ Len(series) = Len(events)
    /\ WellFormed(series)
    /\ \A t \in Timestamps : Occurrences(Dates(series), t) = Occurrences(events, t)

\* The pages requested for the repository of index r, in request order.
PagesOf(r) ==
    LET mine == SelectSeq(requests, LAMBDA q : q[1] = r)
    IN [k \in 1..Len(mine) |-> mine[k][2]]

Capacity == MAX_PAGES * PER_PAGE

\* ---------------------------------------------------------------- C1
\* C1 as stated: whenever every page request of a repository succeeded, the
\* returned series is the cumulative series of all N stars the API holds.
C1_AllStarsCounted ==
    (Returned /\ AllSucceeded) => IsSeriesOf(LastSeries, stargazers)

\* C1, amended: whenever every page request of a repository succeeded, the
\* returned series is the cumulative series (counts 1..M in ascending
\* timestamp order) of the first M = min(N, MAX_PAGES * PER_PAGE) stars
\* delivered; it has N entries exactly when N <= MAX_PAGES * PER_PAGE.
C1_StarsCountedUpToCap ==
    (Returned /\ AllSucceeded) =>
        /\ IsSeriesOf(LastSeries, SubSeq(stargazers, 1, Min(Len(stargazers), Capacity)))
        /\ (Len(LastSeries) = Len(stargazers) <=> Len(stargazers) <= Capacity)

\* Stars delivered out of order as [2, 1, 2] came back as (1,1), (2,2), (2,3).
C1_Witness ==
    /\ Returned
    /\ AllSucceeded
    /\ stargazers = <<2, 1, 2>>
    /\ LastSeries = << <<1, 1>>, <<2, 2>>, <<2, 3>> >>

\* ---------------------------------------------------------------- C2
\* C2: the pages requested for a repository are 1, 2, 3, ... without gap or
\* repetition and never above MAX_PAGES; every response but the latest is a
\* full successful page; and when the call has returned, its last request is
\* the first one that did not deliver a full page, or page MAX_PAGES.
C2_PaginationStops ==
    /\ \A r \in 1..Len(REPOS) :
          /\ PagesOf(r) = [k \in 1..Len(PagesOf(r)) |-> k]
          /\ Len(PagesOf(r)) <= MAX_PAGES
    /\ \A k \in 1..Len(received) - 1 : FullPage(received[k])
    /\ Returned =>
          /\ Len(PagesOf(LastIdx)) = Len(received)
          /\ Len(received) >= 1
          /\ \/ ~FullPage(received[Len(received)])
             \/ Len(received) = MAX_PAGES

\* A call stopped at page 1 on a short, non-empty page although more pages
\* were allowed.
C2_Witness ==
    /\ Returned
    /\ PagesOf(LastIdx) = <<1>>
    /\ received[1].status = OK
    /\ Len(received[1].data) \in 1..PER_PAGE - 1
    /\ MAX_PAGES > 1

\* ---------------------------------------------------------------- C3
\* C3: when main has returned, every configured repository has a series, the
\* exit code is 1 exactly when all of them are empty and 0 exactly when at
\* least one is non-empty.
C3_ExitCode ==
    pc = "exited" =>
        /\ DOMAIN repo_data = Range(REPOS)
        /\ exitCode \in {0, 1}
        /\ exitCode = 1 <=> \A r \in Range(REPOS) : repo_data[r] = <<>>
        /\ exitCode = 0 <=> \E r \in Range(REPOS) : repo_data[r] # <<>>

\* Exit code 0 with a failed, empty repository next to a non-empty one.
C3_Witness ==
    /\ pc = "exited"
    /\ exitCode = 0
    /\ failedAt[1] = 1
    /\ repo_data[REPOS[1]] = <<>>
    /\ repo_data[REPOS[2]] # <<>>

\* ---------------------------------------------------------------- C4
\* C4: when page k of a repository answered with a non-success status, that
\* request is the repository's last, pages 1..k were requested once each, the
\* series is the cumulative series of exactly the events of pages 1..k-1, and
\* the run goes on (the series is stored and main can take its next step).
C4_ErrorKeepsPartial ==
    (Returned /\ failedAt[LastIdx] # 0) =>
        LET k == failedAt[LastIdx] IN
        /\ Len(received) = k
        /\ received[k].status # OK
        /\ PagesOf(LastIdx) = [j \in 1..k |-> j]
        /\ IsSeriesOf(LastSeries, Delivered(k - 1))
        /\ Len(LastSeries) = (k - 1) * PER_PAGE
        /\ pc = "main" => ENABLED Next

\* Page 2 failed after a full page 1, and the series holds page 1's events.
C4_Witness ==
    /\ Returned
    /\ failedAt[LastIdx] = 2
    /\ Len(LastSeries) = PER_PAGE
    /\ received[1].data = <<2, 1>>

\* ---------------------------------------------------------------- C5
\* C5 as stated: after any run that finishes, the file at the output path is
\* the one produced by that run.
C5_EveryRunOverwrites ==
    pc = "exited" => outputFile = "this run"

\* C5, amended: a run that finishes with exit code 0 leaves its own chart at
\* the output path, whatever was there before; a run that finishes with exit
\* code 1 (every series empty) leaves the path as it found it.
C5_SuccessfulRunOverwrites ==
    pc = "exited" =>
        /\ exitCode = 0 => outputFile = "this run"
        /\ exitCode = 1 => outputFile = previousFile

\* A successful run replaced the file a previous run had left.
C5_Witness ==
    /\ pc = "exited"
    /\ exitCode = 0
    /\ previousFile = "previous run"
    /\ outputFile = "this run"

\* ---------------------------------------------------------------- C6
\* C6: a repository whose first page request failed has an empty series; the
\* series of a repository is the cumulative series of the events of its own
\* responses, whatever happened to the other repositories; a stored series is
\* never changed afterwards; and when main has returned every configured
\* repository has been requested and has a series.
C6_Independent ==
    /\ [](/\ \A r \in 1..Len(REPOS) :
                (failedAt[r] = 1 /\ r < repo_idx) => repo_data[REPOS[r]] = <<>>
          /\ Returned => IsSeriesOf(LastSeries, Delivered(Len(received)))
          /\ pc = "exited" =>
                \A r \in 1..Len(REPOS) :
                    /\ REPOS[r] \in DOMAIN repo_data
                    /\ Len(PagesOf(r)) >= 1)
    /\ [][\A r \in DOMAIN repo_data :
             r \in DOMAIN repo_data' /\ repo_data'[r] = repo_data[r]]_vars

\* The first repository failed on page 1; the second was fetched in full.
C6_Witness ==
    /\ pc = "exited"
    /\ failedAt = <<1, 0>>
    /\ repo_data[REPOS[1]] = <<>>
    /\ Len(stargazers) = 3
    /\ Len(repo_data[REPOS[2]]) = 3

\* ---------------------------------------------------------------- C7
\* C7: after generate_chart, the plotted series are exactly the non-empty
\* series of the mapping, one per repository, each under its repository's
\* label; a repository with an empty series is not plotted.
C7_PlotsNonEmpty ==
    rendered > 0 =>
        /\ {plotted[k].label : k \in 1..Len(plotted)}
              = {r \in DOMAIN repo_data : repo_data[r] # <<>>}
        /\ \A j, k \in 1..Len(plotted) : plotted[j].label = plotted[k].label => j = k
        /\ \A k \in 1..Len(plotted) : plotted[k].data = repo_data[plotted[k].label]

\* The chart has one series: the second repository's is empty and skipped.
C7_Witness ==
    /\ rendered = 1
    /\ Len(plotted) = 1
    /\ plotted[1].label = REPOS[1]
    /\ repo_data[REPOS[2]] = <<>>

\* ---------------------------------------------------------------- C8
\* C8: every stored series has non-decreasing timestamps and counts 1, 2, ...
\* rising by one, and the series of the call that just returned has as many
\* entries as star events were delivered to it.
C8_SeriesWellFormed ==
    /\ \A r \in DOMAIN repo_data : WellFormed(repo_data[r])
    /\ Returned =>
          /\ Len(LastSeries) = Len(Delivered(Len(received)))
          /\ LastSeries # <<>> => LastSeries[Len(LastSeries)][2] = Len(Delivered(Len(received)))

\* The call left the loop at the page cap with events delivered out of order.
C8_Witness ==
    /\ Returned
    /\ Len(received) = MAX_PAGES
    /\ FullPage(received[MAX_PAGES])
    /\ received[1].data[1] > received[MAX_PAGES].data[PER_PAGE]
    /\ Len(LastSeries) = Capacity

\* ---------------------------------------------------------------- C9
\* C9: requests are issued one repository after the other in configuration
\* order and page after page; a repository is requested only when every
\* repository before it has its series stored; while a call is in its loop
\* every response it has received is a full successful page and page is the
\* next one; generate_chart runs at most once, and only with every configured
\* repository stored.
C9_Sequential ==
    /\ requests # <<>> => requests[1] = <<1, 1>>
    /\ \A k \in 1..Len(requests) - 1 :
          \/ requests[k + 1] = <<requests[k][1], requests[k][2] + 1>>
          \/ requests[k + 1] = <<requests[k][1] + 1, 1>>
    /\ \A k \in 1..Len(requests) :
          /\ requests[k][1] <= repo_idx
          /\ \A r \in 1..requests[k][1] - 1 : REPOS[r] \in DOMAIN repo_data
    /\ \A r \in 1..Len(REPOS) : REPOS[r] \in DOMAIN repo_data <=> r < repo_idx
    /\ pc \in {"request", "response"} =>
          /\ Len(received) = page - 1
          /\ \A k \in 1..Len(received) : FullPage(received[k])
          /\ Len(PagesOf(repo_idx)) = IF pc = "request" THEN page - 1 ELSE page
    /\ rendered <= 1
    /\ rendered = 1 => (pc = "exited" /\ DOMAIN repo_data = Range(REPOS))

\* Both repositories were paginated to the cap, then the chart was rendered.
C9_Witness ==
    /\ rendered = 1
    /\ requests = << <<1, 1>>, <<1, 2>>, <<2, 1>>, <<2, 2>> >>

\* ---------------------------------------------------------------- C10
\* C10: every run reaches its exit with code 0 or 1; no repository is
\* requested more than MAX_PAGES times, so a run issues at most
\* MAX_PAGES * len(REPOS) requests, and no series has more than
\* MAX_PAGES * PER_PAGE entries.
C10_Terminates ==
    /\ <>(pc = "exited" /\ exitCode \in {0, 1})
    /\ [](/\ \A r \in 1..Len(REPOS) : Len(PagesOf(r)) <= MAX_PAGES
          /\ Len(requests) <= MAX_PAGES * Len(REPOS)
          /\ \A r \in DOMAIN repo_data : Len(repo_data[r]) <= Capacity)

\* A finished run that used every request and filled a series to the cap.
C10_Witness ==
    /\ pc = "exited"
    /\ Len(requests) = MAX_PAGES * Len(REPOS)
    /\ Len(repo_data[REPOS[1]]) = Capacity
====
